---------------------------- MODULE Spec2Model ----------------------------
(***************************************************************************)
(* Box-tree construction of kosmonaut (src/layout/box_tree.rs).            *)
(*                                                                         *)
(* build_box_tree is a recursive function from a DOM node and an optional  *)
(* parent formatting context to an optional layout box.  The model keeps   *)
(* the DOM as a sequence of node records in document (pre-)order, the      *)
(* reference-counted formatting contexts as an arena of context records    *)
(* addressed by index (Rc::ptr_eq is index equality), and the layout boxes *)
(* as an arena of box records whose children are box indices.              *)
(***************************************************************************)
EXTENDS Integers, Sequences, FiniteSets, TLC

\* Largest number of DOM nodes of an input tree, whatever its root and
\* whatever context is offered at its root.
MaxNodes == 4

\* Largest number of DOM nodes of an input tree whose root is a block/flow
\* element; trees of more than MaxNodes nodes are built with no context
\* offered.
MaxBlockRootNodes == 5

----------------------------------------------------------------------------
(* Display values: style/values/computed/display (consumed, read-only).    *)

DisplayNone    == [box |-> "none", outer |-> "-",      inner |-> "-"]
BlockFlow      == [box |-> "full", outer |-> "Block",  inner |-> "Flow"]
BlockFlowRoot  == [box |-> "full", outer |-> "Block",  inner |-> "FlowRoot"]
InlineFlow     == [box |-> "full", outer |-> "Inline", inner |-> "Flow"]
InlineFlowRoot == [box |-> "full", outer |-> "Inline", inner |-> "FlowRoot"]
NoDisplay      == [box |-> "-",    outer |-> "-",      inner |-> "-"]

Displays == {DisplayNone, BlockFlow, BlockFlowRoot, InlineFlow, InlineFlowRoot}

----------------------------------------------------------------------------
(* Text contents and str::trim.                                            *)

Whitespace == {" "}

RECURSIVE TrimStart(_)
TrimStart(s) ==
    IF s # <<>> /\ Head(s) \in Whitespace THEN TrimStart(Tail(s)) ELSE s

RECURSIVE TrimEnd(_)
TrimEnd(s) ==
    IF s # <<>> /\ s[Len(s)] \in Whitespace
    THEN TrimEnd(SubSeq(s, 1, Len(s) - 1))
    ELSE s

\* Faulty variant of Trim: the text is used untrimmed.
Trim_not_trimmed(s) == s

\* text.clone().take().trim().to_owned()
Trim(s) == TrimEnd(TrimStart(s))

\* The text contents input trees are drawn from: whitespace only, a word
\* padded with whitespace on both sides, and a bare word.
TextContents == { <<" ", " ">>, <<" ", "A", " ">>, <<"B">> }

----------------------------------------------------------------------------
(* The DOM (dom::tree, consumed): a sequence of node records in document   *)
(* order; a node's id is its index and parent = 0 marks the root of the    *)
(* tree handed to build_box_tree.                                          *)

DocumentNode  == [kind |-> "Document", name |-> "", display |-> NoDisplay,
                  text |-> <<>>, parent |-> 0]
DoctypeNode(p) == [kind |-> "Doctype", name |-> "", display |-> NoDisplay,
                   text |-> <<>>, parent |-> p]
ElementNode(n, d, p) == [kind |-> "Element", name |-> n, display |-> d,
                         text |-> <<>>, parent |-> p]
TextNode(t, p) == [kind |-> "Text", name |-> "", display |-> NoDisplay,
                   text |-> t, parent |-> p]

\* node.children(): the children of n in document order.
RECURSIVE ChildrenFrom(_, _, _)
ChildrenFrom(d, n, i) ==
    IF i > Len(d) THEN <<>>
    ELSE IF d[i].parent = n THEN <<i>> \o ChildrenFrom(d, n, i + 1)
    ELSE ChildrenFrom(d, n, i + 1)

Children(d, n) == ChildrenFrom(d, n, 1)

\* n and its ancestors.
RECURSIVE AncestorsOrSelf(_, _)
AncestorsOrSelf(d, n) ==
    IF n <= 0 THEN {} ELSE {n} \cup AncestorsOrSelf(d, d[n].parent)

\* The nodes that may be appended to tree d as node Len(d)+1, keeping the
\* sequence in document order: the parent is the last node or one of its
\* ancestors, and is a document or an element.
NextNodes(d) ==
    UNION { IF d[p].kind = "Document"
            THEN {DoctypeNode(p), ElementNode("div", BlockFlow, p)}
                 \cup {ElementNode("html", ds, p) : ds \in Displays}
            ELSE IF d[p].kind = "Element"
            THEN {ElementNode("div", ds, p) : ds \in Displays}
                 \cup {TextNode(t, p) : t \in TextContents}
            ELSE {}
          : p \in AncestorsOrSelf(d, Len(d)) }

RootNodes ==
    {DocumentNode}
    \cup {ElementNode("div", ds, 0) : ds \in Displays}
    \cup {TextNode(t, 0) : t \in TextContents}

----------------------------------------------------------------------------
(* Formatting contexts (layout::formatting_context, consumed).  A          *)
(* FormattingContextRef is an Rc<QualifiedFormattingContext>: an index     *)
(* into the arena fcs; two references are the same instance iff the        *)
(* indices are equal.  An absent Option<FormattingContextRef> is 0.        *)

IndependentBlock  == [qualifier |-> "Independent", kind |-> "Block"]
DependentBlock    == [qualifier |-> "Dependent",   kind |-> "Block"]
IndependentInline == [qualifier |-> "Independent", kind |-> "Inline"]
DependentInline   == [qualifier |-> "Dependent",   kind |-> "Inline"]

\* The context instances the caller of build_box_tree holds and may offer.
CallerContexts ==
    <<IndependentBlock, DependentBlock, IndependentInline, DependentInline>>

None == 0

OfferedContexts == {None} \cup DOMAIN CallerContexts

is_inline_formatting_context(q) == q.kind = "Inline"

is_block_formatting_context(q) == q.kind = "Block"

----------------------------------------------------------------------------
(* The builder's working state h: the arena of boxes built so far, the     *)
(* arena of context instances, and the outcome of the call that has just   *)
(* returned: status "Some" with the box ret, status "None", status "ok"    *)
(* for a function returning (), or status "panic" when the call panicked.  *)

EmptyHeap ==
    [boxes |-> <<>>, fcs |-> CallerContexts, status |-> "ok", ret |-> 0]

ReturnNone(h) == [h EXCEPT !.status = "None", !.ret = 0]

ReturnUnit(h) == [h EXCEPT !.status = "ok", !.ret = 0]

\* unwrap() of None, a failed assert!, panic!, unimplemented!: all panic.
Panic(h) == [h EXCEPT !.status = "panic", !.ret = 0]

\* FormattingContextRef::new_independent_block / new_independent_inline:
\* a new instance, returned in ret.
new_context(h, q) ==
    [h EXCEPT !.fcs = Append(@, q), !.status = "Some", !.ret = Len(h.fcs) + 1]

new_independent_block(h) == new_context(h, IndependentBlock)

new_independent_inline(h) == new_context(h, IndependentInline)

\* A new box without children, returned in ret.
new_box(h, type, node, fc, contents) ==
    [h EXCEPT !.boxes = Append(@, [type |-> type, node |-> node, fc |-> fc,
                                   children |-> <<>>, contents |-> contents]),
              !.status = "Some",
              !.ret = Len(h.boxes) + 1]

\* LayoutBox::add_child: child becomes the last child of box.
add_child(h, box, child) ==
    [h EXCEPT !.boxes[box].children = Append(@, child), !.status = "ok", !.ret = 0]

\* LayoutBox::formatting_context: the context instance the box holds.
formatting_context(h, box) == h.boxes[box].fc

\* LayoutBox::get_mut_inline_container: the box inline-level children of
\* box are to be appended to, or None.  An inline box hosts them itself; a
\* block container hosts them in the root inline box of its last child when
\* that child is an anonymous block box.
get_mut_inline_container(h, box) ==
    LET b == h.boxes[box] IN
    IF b.type \in {"InlineBox", "RootInlineBox"} THEN box
    ELSE IF b.type = "BlockContainer" /\ b.children # <<>>
            /\ h.boxes[b.children[Len(b.children)]].type = "AnonymousBlock"
         THEN Head(h.boxes[b.children[Len(b.children)]].children)
    ELSE None

\* AnonymousBlockBox::new(node, context), context being the one just made.
anonymous_block_box(c, node) == new_box(c, "AnonymousBlock", node, c.ret, <<>>)

\* r holds the root inline box just made; it becomes the child of the
\* anonymous block box, which is returned.
into_anonymous_block(r, anonymous) ==
    [add_child(r, anonymous, r.ret) EXCEPT !.status = "Some", !.ret = anonymous]

\* Faulty variant of root_inline_box: the root inline box gets the context c
\* has just made instead of the anonymous block's.
root_inline_box_own_context(a, c, node) ==
    into_anonymous_block(new_box(c, "RootInlineBox", node, c.ret, <<>>), a.ret)

\* LayoutBox::create_root_inline_box(node, anonymous_block_box.formatting_context()),
\* added to the anonymous block box a has just made.
root_inline_box(a, node) ==
    into_anonymous_block(
        new_box(a, "RootInlineBox", node, formatting_context(a, a.ret), <<>>),
        a.ret)

\* Faulty variant of create_inline_container: a block context is made.
create_inline_container_block_context(h, node) ==
    root_inline_box(anonymous_block_box(new_independent_block(h), node), node)

\* Faulty variant of create_inline_container: the root inline box gets a
\* context of its own.
create_inline_container_root_own_context(h, node) ==
    root_inline_box_own_context(
        anonymous_block_box(new_independent_inline(h), node),
        new_independent_inline(anonymous_block_box(new_independent_inline(h), node)),
        node)

\* create_inline_container: an anonymous block box with a new independent
\* inline context, holding one root inline box of that context.
create_inline_container(h, node) ==
    root_inline_box(anonymous_block_box(new_independent_inline(h), node), node)

\* The box c has just made becomes the last child of box.
add_returned(c, box) == add_child(c, box, c.ret)

\* layout_box.get_mut_inline_container().unwrap()
unwrap_inline_container(h, layout_box) ==
    IF get_mut_inline_container(h, layout_box) = None THEN Panic(h)
    ELSE [h EXCEPT !.status = "Some",
                   !.ret = get_mut_inline_container(h, layout_box)]

\* Faulty variant of get_or_create_inline_container: a container is created
\* on every call.
get_or_create_inline_container_always_new(h, layout_box, node_for_container) ==
    unwrap_inline_container(
        add_returned(create_inline_container(h, node_for_container), layout_box),
        layout_box)

\* get_or_create_inline_container: ret is the inline container of
\* layout_box, created and appended to layout_box first if there is none.
get_or_create_inline_container(h, layout_box, node_for_container) ==
    unwrap_inline_container(
        IF get_mut_inline_container(h, layout_box) = None
        THEN add_returned(create_inline_container(h, node_for_container), layout_box)
        ELSE h,
        layout_box)

----------------------------------------------------------------------------
(* build_box_from_display: the box a node generates from its display, and  *)
(* the formatting context the box holds.                                   *)

\* Faulty variant of block_flow_context: the parent context is never joined.
block_flow_context_always_new(h, parent_context) == new_independent_block(h)

\* Faulty variant of block_flow_context: any offered context is joined.
block_flow_context_join_any(h, parent_context) ==
    IF parent_context # None
    THEN [h EXCEPT !.status = "Some", !.ret = parent_context]
    ELSE new_independent_block(h)

\* (Block, Flow): join the parent context if it is a block formatting
\* context, else a new independent block context.  ret is the context.
block_flow_context(h, parent_context) ==
    IF parent_context # None
    THEN IF h.fcs[parent_context] \in {IndependentBlock, DependentBlock}
         THEN [h EXCEPT !.status = "Some", !.ret = parent_context]
         ELSE new_independent_block(h)
    ELSE new_independent_block(h)

\* Faulty variant of inline_flow_context: the parent context is not checked.
inline_flow_context_unchecked(h, parent_context) ==
    IF parent_context # None
    THEN [h EXCEPT !.status = "Some", !.ret = parent_context]
    ELSE new_independent_inline(h)

\* (Inline, Flow): the parent context, which must be present and an inline
\* formatting context; panic! otherwise.  ret is the context.
inline_flow_context(h, parent_context) ==
    IF parent_context # None
    THEN IF h.fcs[parent_context] \in {IndependentInline, DependentInline}
         THEN [h EXCEPT !.status = "Some", !.ret = parent_context]
         ELSE Panic(h)
    ELSE Panic(h)

\* BlockLevelBox::new_block_container(node, context), context being the one
\* c returns.
new_block_container(c, node) == new_box(c, "BlockContainer", node, c.ret, <<>>)

\* InlineBox::new(node, context), unless getting the context panicked.
new_inline_box(c, node) ==
    IF c.status = "panic" THEN c ELSE new_box(c, "InlineBox", node, c.ret, <<>>)

\* Faulty variant of build_box_from_display: display none generates a block
\* container.
build_box_from_display_none_as_block(d, h, node, parent_context) ==
    IF d[node].display = BlockFlow
    THEN new_block_container(block_flow_context(h, parent_context), node)
    ELSE IF d[node].display = BlockFlowRoot
    THEN new_block_container(new_independent_block(h), node)
    ELSE IF d[node].display = InlineFlow
    THEN new_inline_box(inline_flow_context(h, parent_context), node)
    ELSE IF d[node].display = InlineFlowRoot
    THEN Panic(h)
    ELSE new_block_container(block_flow_context(h, parent_context), node)

build_box_from_display(d, h, node, parent_context) ==
    IF d[node].display.box = "full"
    THEN IF d[node].display = BlockFlow
         THEN new_block_container(block_flow_context(h, parent_context), node)
         ELSE IF d[node].display = BlockFlowRoot
         THEN new_block_container(new_independent_block(h), node)
         ELSE IF d[node].display = InlineFlow
         THEN new_inline_box(inline_flow_context(h, parent_context), node)
         ELSE Panic(h)                          \* unimplemented!()
    ELSE ReturnNone(h)                          \* Display::Box(DisplayBox::None)

----------------------------------------------------------------------------
(* build_box_tree and handle_child_node_by_display.                        *)

\* node.children().find(|child| child is an element named html), or None.
html_child(d, node) ==
    LET hs == SelectSeq(Children(d, node),
                        LAMBDA c : d[c].kind = "Element" /\ d[c].name = "html")
    IN  IF hs = <<>> THEN None ELSE Head(hs)

\* Faulty variant of html_context: the offered context is passed on.
html_context_passed_on(parent_context) == parent_context

\* The context the document node hands to the html element: None.
html_context(parent_context) == None

\* The box of a text node: none if the trimmed contents are empty, else a
\* text run in the parent context, which is unwrapped and asserted inline.
text_run(h, node, parent_context, contents) ==
    IF contents = <<>> THEN ReturnNone(h)
    ELSE IF parent_context = None THEN Panic(h)
    ELSE IF ~is_inline_formatting_context(h.fcs[parent_context]) THEN Panic(h)
    ELSE new_box(h, "TextRun", node, parent_context, contents)

\* inline_container.add_child(TextRun::new(child,
\* inline_container.formatting_context(), contents)), c returning the
\* inline container.
add_text_run(c, child, contents) ==
    IF c.status = "panic" THEN c
    ELSE add_returned(new_box(c, "TextRun", child, formatting_context(c, c.ret),
                              contents),
                      c.ret)

\* if let Some(child_box) = build_box_tree(..) { box.add_child(child_box) },
\* b being what build_box_tree returned.
add_if_some(b, box) ==
    IF b.status = "Some" THEN add_child(b, box, b.ret)
    ELSE IF b.status = "panic" THEN b
    ELSE ReturnUnit(b)

\* Some(layout_box), done being the state after the loop over the children.
return_some(done, layout_box) ==
    IF done.status = "panic" THEN done
    ELSE [done EXCEPT !.status = "Some", !.ret = layout_box]

RECURSIVE build_box_tree(_, _, _, _)
RECURSIVE handle_child_node_by_display(_, _, _, _)
RECURSIVE build_children(_, _, _, _, _)
RECURSIVE build_children_of(_, _, _)
RECURSIVE build_child(_, _, _, _)
RECURSIVE build_next_child(_, _, _, _, _)
RECURSIVE build_in_container(_, _, _)

build_box_tree(d, h, node, parent_context) ==
    IF d[node].kind = "Document"
    THEN IF html_child(d, node) = None THEN ReturnNone(h)
         ELSE build_box_tree(d, h, html_child(d, node), html_context(parent_context))
    ELSE build_children_of(
            d,
            IF d[node].kind = "Text"
            THEN text_run(h, node, parent_context, Trim(d[node].text))
            ELSE build_box_from_display(d, h, node, parent_context),
            node)

\* The rest of build_box_tree once the box of node is made (or is not).
build_children_of(d, made, node) ==
    IF made.status # "Some" THEN made
    ELSE return_some(build_children(d, made, made.ret, Children(d, node), 1),
                     made.ret)

\* The loop over node.children() of build_box_tree, from the i-th child on.
build_children(d, h, layout_box, children, i) ==
    IF i > Len(children) THEN ReturnUnit(h)
    ELSE build_next_child(d, build_child(d, h, layout_box, children[i]),
                          layout_box, children, i)

build_next_child(d, h, layout_box, children, i) ==
    IF h.status = "panic" THEN h
    ELSE build_children(d, h, layout_box, children, i + 1)

\* One iteration of the loop: a text child, or a child handled by display.
build_child(d, h, layout_box, child) ==
    IF d[child].kind = "Text"
    THEN IF Trim(d[child].text) = <<>> THEN ReturnUnit(h)
         ELSE add_text_run(get_or_create_inline_container(h, layout_box, child),
                           child, Trim(d[child].text))
    ELSE handle_child_node_by_display(d, h, layout_box, child)

handle_child_node_by_display(d, h, parent_box, child_node) ==
    IF d[child_node].display.box = "full"
    THEN IF d[child_node].display.outer = "Block"
         THEN add_if_some(build_box_tree(d, h, child_node,
                                         formatting_context(h, parent_box)),
                          parent_box)
         ELSE IF d[child_node].display = InlineFlow
         THEN build_in_container(
                 d, get_or_create_inline_container(h, parent_box, child_node),
                 child_node)
         ELSE Panic(h)                          \* unimplemented!()
    ELSE ReturnUnit(h)                          \* Display::Box(DisplayBox::None)

\* The (Inline, Flow) child built against the inline container c returns.
build_in_container(d, c, child_node) ==
    IF c.status = "panic" THEN c
    ELSE add_if_some(build_box_tree(d, c, child_node, formatting_context(c, c.ret)),
                     c.ret)

----------------------------------------------------------------------------
(* One construction pass: the caller holds a DOM and calls build_box_tree  *)
(* on its root with an offered context.                                    *)

VARIABLES dom, offered, pc, result

vars == <<dom, offered, pc, result>>

\* What the caller is left with: the returned box and the arenas, or, when
\* the pass panicked, nothing of the tree under construction.
Outcome(h) ==
    IF h.status = "panic" THEN Panic(EmptyHeap) ELSE h

Init ==
    /\ dom \in { <<r>> : r \in RootNodes }
    /\ offered = None
    /\ pc = "ready"
    /\ result = EmptyHeap

\* The document tree grows by one node, in document order, before the pass.
AppendNode ==
    /\ pc = "ready"
    /\ Len(dom) < (IF dom[1] = ElementNode("div", BlockFlow, 0)
                   THEN MaxBlockRootNodes ELSE MaxNodes)
    /\ \E c \in NextNodes(dom) : dom' = Append(dom, c)
    /\ UNCHANGED <<offered, pc, result>>

\* build_box_tree(root, parent_context)
Build ==
    /\ pc = "ready"
    /\ \E parent_context \in (IF Len(dom) <= MaxNodes THEN OfferedContexts
                               ELSE {None}) :
          /\ offered' = parent_context
          /\ result' = Outcome(build_box_tree(dom, EmptyHeap, 1, parent_context))
    /\ pc' = "done"
    /\ UNCHANGED dom

Next == AppendNode \/ Build

Spec == Init /\ [][Next]_vars

----------------------------------------------------------------------------
(* Vocabulary of the properties.                                           *)

Done == pc = "done"

Returned == Done /\ result.status = "Some"

BoxIds == DOMAIN result.boxes

Box(b) == result.boxes[b]

ChildBoxes(b) == { Box(b).children[i] : i \in DOMAIN Box(b).children }

RECURSIVE BoxSubtree(_)
BoxSubtree(b) == {b} \cup UNION { BoxSubtree(c) : c \in ChildBoxes(b) }

Nodes == DOMAIN dom

IsBlank(t) == \A i \in DOMAIN t : t[i] \in Whitespace

IsElement(n, display) == dom[n].kind = "Element" /\ dom[n].display = display

IsText(n) == dom[n].kind = "Text" /\ ~IsBlank(dom[n].text)

InlineLevel(n) == IsElement(n, InlineFlow) \/ IsText(n)

BlockLevel(n) == IsElement(n, BlockFlow) \/ IsElement(n, BlockFlowRoot)

\* The tree d without the nodes of S and their subtrees.
Detach(d, S) ==
    [i \in DOMAIN d |-> IF i \in S THEN [d[i] EXCEPT !.parent = -1] ELSE d[i]]

\* Box b is generated for node n itself (anonymous boxes only borrow n).
GeneratedFor(b, n) ==
    Box(b).node = n /\ Box(b).type \in {"BlockContainer", "InlineBox", "TextRun"}

----------------------------------------------------------------------------
(* C1: anonymous container grouping.                                       *)

\* The anonymous block children of box p whose root inline box holds the
\* box generated for node n.
AnonymousHosts(p, n) ==
    { a \in ChildBoxes(p) :
        /\ Box(a).type = "AnonymousBlock"
        /\ \E r \in ChildBoxes(a) :
              /\ Box(r).type = "RootInlineBox"
              /\ \E b \in ChildBoxes(r) : GeneratedFor(b, n) }

Grouping(p) ==
    LET kids  == Children(dom, Box(p).node)
        hosts == [i \in DOMAIN kids |-> AnonymousHosts(p, kids[i])]
    IN  \A i, j \in DOMAIN kids :
           (i <= j /\ InlineLevel(kids[i]) /\ InlineLevel(kids[j])) =>
              /\ Cardinality(hosts[i]) = 1
              /\ (hosts[i] = hosts[j])
                    <=> ~ \E k \in DOMAIN kids :
                             i < k /\ k < j /\ BlockLevel(kids[k])

GroupingExampleDom ==
    << ElementNode("div", BlockFlow, 0),
       ElementNode("div", InlineFlow, 1),
       TextNode(<<" ", "A", " ">>, 1),
       ElementNode("div", BlockFlow, 1),
       ElementNode("div", InlineFlow, 1) >>

\* The box tree [anonymous{root{A, "A"}}, B, anonymous{root{C}}] under the
\* returned box.
GroupingExampleTree ==
    LET kids == Box(result.ret).children IN
    /\ Len(kids) = 3
    /\ Box(kids[1]).type = "AnonymousBlock"
    /\ Len(Box(kids[1]).children) = 1
    /\ LET r == Box(kids[1]).children[1] IN
          /\ Box(r).type = "RootInlineBox"
          /\ Len(Box(r).children) = 2
          /\ Box(Box(r).children[1]).type = "InlineBox"
          /\ Box(Box(r).children[1]).node = 2
          /\ Box(Box(r).children[2]).type = "TextRun"
          /\ Box(Box(r).children[2]).node = 3
          /\ Box(Box(r).children[2]).contents = <<"A">>
    /\ Box(kids[2]).type = "BlockContainer"
    /\ Box(kids[2]).node = 4
    /\ Box(kids[3]).type = "AnonymousBlock"
    /\ kids[3] # kids[1]
    /\ Len(Box(kids[3]).children) = 1
    /\ LET r == Box(kids[3]).children[1] IN
          /\ Box(r).type = "RootInlineBox"
          /\ Len(Box(r).children) = 1
          /\ Box(Box(r).children[1]).type = "InlineBox"
          /\ Box(Box(r).children[1]).node = 5

\* C1: in every returned box tree, under every block container, two
\* inline-level children of the source node (inline/flow elements, non-empty
\* texts) are hosted by one and the same anonymous block box exactly when no
\* block-level child lies between them; and the children [inline A, text,
\* block B, inline C] give exactly [anonymous{root{A, text}}, B,
\* anonymous{root{C}}].
C1_AnonymousGrouping ==
    Returned =>
       /\ \A p \in BoxIds : Box(p).type = "BlockContainer" => Grouping(p)
       /\ dom = GroupingExampleDom => GroupingExampleTree

C1_Witness ==
    Returned /\ dom = GroupingExampleDom /\ GroupingExampleTree

----------------------------------------------------------------------------
(* C2: context sharing.                                                    *)

BlockFlowChildren(p) ==
    { c \in ChildBoxes(p) : Box(c).type = "BlockContainer"
                            /\ IsElement(Box(c).node, BlockFlow) }

\* C2: in every returned box tree, every box generated from a block/flow
\* child of a block container holds the very context instance the
\* container holds, and that context is a block formatting context.
C2_ContextSharing ==
    Returned =>
       \A p \in BoxIds : Box(p).type = "BlockContainer" =>
          /\ is_block_formatting_context(result.fcs[Box(p).fc])
          /\ \A c \in BlockFlowChildren(p) : Box(c).fc = Box(p).fc

C2_Witness ==
    /\ Returned
    /\ \E p \in BoxIds :
          /\ Box(p).type = "BlockContainer"
          /\ Cardinality(BlockFlowChildren(p)) >= 2
          /\ \A c \in BlockFlowChildren(p) : Box(c).fc = Box(p).fc

----------------------------------------------------------------------------
(* C3: display none suppresses the subtree.                                *)

NoneNodes == { n \in Nodes : IsElement(n, DisplayNone) }

\* n is a display-none node or a descendant of one.
RECURSIVE IsSuppressed(_)
IsSuppressed(n) ==
    n > 0 /\ (IsElement(n, DisplayNone) \/ IsSuppressed(dom[n].parent))

\* The display-none nodes and their descendants.
Suppressed == { n \in Nodes : IsSuppressed(n) }

\* The display-none nodes that are the root or a child of the document node
\* (no box has them as a child's source), kept when the tree is pruned.
TopLevel == { n \in Nodes : n = 1 \/ dom[dom[n].parent].kind = "Document" }

\* C3: no box is generated for a display-none node or any of its
\* descendants, and the outcome of the pass is the outcome for the tree
\* with those nodes removed: the descendants are never visited (whatever
\* their display or text) and the parent's child list is as if the node were
\* not there.
C3_DisplayNoneSuppresses ==
    (Done /\ NoneNodes # {}) =>
       /\ \A b \in BoxIds : ~IsSuppressed(Box(b).node)
       /\ LET removed == Suppressed \ (NoneNodes \cap TopLevel) IN
          removed # {} =>
             result = Outcome(build_box_tree(Detach(dom, removed),
                                             EmptyHeap, 1, offered))

C3_Witness ==
    /\ Returned
    /\ \E n \in NoneNodes, m \in Suppressed :
          /\ n # 1 /\ m # n /\ n \in AncestorsOrSelf(dom, m)
          /\ IsElement(m, InlineFlowRoot)

----------------------------------------------------------------------------
(* C4: document-root skipping.                                             *)

HtmlElements ==
    { c \in Nodes : dom[c].parent = 1 /\ dom[c].kind = "Element"
                    /\ dom[c].name = "html" }

FirstHtmlElement == CHOOSE c \in HtmlElements : \A e \in HtmlElements : c <= e

\* C4: for a document node, whatever context is offered, the outcome is the
\* outcome of building the document's first html element child with no
\* context offered, or None without the html element; no box is generated
\* for the document node or a doctype node.
C4_DocumentRootSkipping ==
    (Done /\ dom[1].kind = "Document") =>
       /\ IF HtmlElements = {}
          THEN result.status = "None" /\ result.boxes = <<>>
          ELSE result = Outcome(build_box_tree(dom, EmptyHeap, FirstHtmlElement, None))
       /\ \A b \in BoxIds : dom[Box(b).node].kind \notin {"Document", "Doctype"}

C4_Witness ==
    /\ Returned
    /\ dom[1].kind = "Document"
    /\ offered # None
    /\ is_block_formatting_context(result.fcs[offered])
    /\ HtmlElements # {}
    /\ \E c \in Nodes : c < FirstHtmlElement /\ dom[c].kind = "Doctype"
    /\ IsElement(FirstHtmlElement, BlockFlow)
    /\ Box(result.ret).node = FirstHtmlElement

----------------------------------------------------------------------------
(* C5: whitespace elision.                                                 *)

BlankTexts == { n \in Nodes : dom[n].kind = "Text" /\ IsBlank(dom[n].text) }

\* C5: a text node of whitespace alone yields None under every offered
\* context, without a panic; as a child it leaves the outcome as it is
\* without that child (no text run, no anonymous container); and no text
\* run of a returned tree is empty.
C5_WhitespaceElision ==
    Done =>
       /\ 1 \in BlankTexts => (result.status = "None" /\ result.boxes = <<>>)
       /\ BlankTexts \ {1} # {} =>
             result = Outcome(build_box_tree(Detach(dom, BlankTexts \ {1}),
                                             EmptyHeap, 1, offered))
       /\ \A b \in BoxIds :
             /\ ~(dom[Box(b).node].kind = "Text" /\ IsBlank(dom[Box(b).node].text))
             /\ Box(b).type = "TextRun" => Box(b).contents # <<>>

C5_Witness ==
    /\ Done
    /\ 1 \in BlankTexts
    /\ offered # None
    /\ is_block_formatting_context(result.fcs[offered])
    /\ result.status = "None"

----------------------------------------------------------------------------
(* C6: the end-to-end scenario <body><div>A<span>B</span></div></body>.    *)

ScenarioDom ==
    << ElementNode("div", BlockFlow, 0),            \* body
       ElementNode("div", BlockFlow, 1),            \* div
       TextNode(<<" ", "A", " ">>, 2),              \* A
       ElementNode("div", InlineFlow, 2),           \* span
       TextNode(<<"B">>, 4) >>                      \* B

\* A context instance created by the pass, not one the caller held.
CreatedByPass(fc) == fc > Len(CallerContexts)

ScenarioTree ==
    LET body == result.ret IN
    /\ Len(result.boxes) = 7
    /\ Box(body).type = "BlockContainer" /\ Box(body).node = 1
    /\ CreatedByPass(Box(body).fc)
    /\ result.fcs[Box(body).fc] = IndependentBlock
    /\ Len(Box(body).children) = 1
    /\ LET div == Box(body).children[1] IN
       /\ Box(div).type = "BlockContainer" /\ Box(div).node = 2
       /\ Box(div).fc = Box(body).fc
       /\ Len(Box(div).children) = 1
       /\ LET anon == Box(div).children[1] IN
          /\ Box(anon).type = "AnonymousBlock"
          /\ CreatedByPass(Box(anon).fc)
          /\ result.fcs[Box(anon).fc] = IndependentInline
          /\ Len(Box(anon).children) = 1
          /\ LET root == Box(anon).children[1] IN
             /\ Box(root).type = "RootInlineBox"
             /\ Box(root).fc = Box(anon).fc
             /\ Len(Box(root).children) = 2
             /\ LET a == Box(root).children[1]
                    span == Box(root).children[2]
                IN  /\ Box(a).type = "TextRun" /\ Box(a).node = 3
                    /\ Box(a).contents = <<"A">>
                    /\ Box(a).fc = Box(anon).fc
                    /\ Box(a).children = <<>>
                    /\ Box(span).type = "InlineBox" /\ Box(span).node = 4
                    /\ Box(span).fc = Box(anon).fc
                    /\ Len(Box(span).children) = 1
                    /\ LET b == Box(span).children[1] IN
                       /\ Box(b).type = "TextRun" /\ Box(b).node = 5
                       /\ Box(b).contents = <<"B">>
                       /\ Box(b).fc = Box(anon).fc
                       /\ Box(b).children = <<>>

\* C6: building from body with no context offered returns body{div{
\* anonymous{root{"A", span{"B"}}}}}: body establishes a block context, div
\* joins it, the anonymous block establishes an inline context, and the
\* root inline box, both text runs and the span hold that inline context.
C6_EndToEndScenario ==
    (Done /\ dom = ScenarioDom /\ offered = None) =>
       (result.status = "Some" /\ ScenarioTree)

C6_Witness ==
    Returned /\ dom = ScenarioDom /\ offered = None /\ ScenarioTree

----------------------------------------------------------------------------
(* Which passes panic.                                                     *)

\* The node the pass builds the tree of: the root, or for a document node
\* its first html element (None without one), and the context it is built
\* with.
BuiltRoot ==
    IF dom[1].kind # "Document" THEN 1
    ELSE IF HtmlElements = {} THEN None
    ELSE FirstHtmlElement

BuiltContext == IF dom[1].kind = "Document" THEN None ELSE offered

\* The inline/flow-root elements outside every display-none subtree.
Unsupported == { n \in Nodes : IsElement(n, InlineFlowRoot) /\ ~IsSuppressed(n) }

UnsupportedUnder(r) == { n \in Unsupported : r \in AncestorsOrSelf(dom, n) }

InlineOffered(c) == c # None /\ is_inline_formatting_context(CallerContexts[c])

ContractViolatingRoot ==
    /\ BuiltRoot # None
    /\ InlineLevel(BuiltRoot)
    /\ ~InlineOffered(BuiltContext)

ReachesUnsupported ==
    /\ BuiltRoot # None
    /\ ~ContractViolatingRoot
    /\ UnsupportedUnder(BuiltRoot) # {}

\* A pass panics exactly when its root violates the inline-context contract
\* or it reaches an unsupported element.
PanicsExactly ==
    Done => (result.status = "panic" <=> (ContractViolatingRoot \/ ReachesUnsupported))

----------------------------------------------------------------------------
(* C7: contract violations are fatal.                                      *)

----------------------------------------------------------------------------
(* C8: unsupported inline/flow-root boxes.                                 *)

\* The status of a pass that violated the inline-context contract.
ContractViolationStatus == "panic"

\* C8: a pass that reaches an inline/flow-root element ends with an outcome
\* that is neither a tree (Some) nor no box (None) and is distinct from the
\* outcome of a contract violation.
C8_UnsupportedIsDistinct ==
    (Done /\ ReachesUnsupported) =>
       /\ result.status \notin {"Some", "None"}
       /\ result.status # ContractViolationStatus

----------------------------------------------------------------------------
(* C9: the classifier's context policy for block-outer boxes.              *)

ParentBox(b) == CHOOSE p \in BoxIds : b \in ChildBoxes(p)

\* The context build_box_tree was offered when it generated box b.
OfferedTo(b) ==
    IF b = result.ret THEN BuiltContext ELSE Box(ParentBox(b)).fc

\* b holds a new independent block context: not the offered one, not one
\* the caller held, and held by no box outside the subtree of b.
FreshBlockContext(b) ==
    /\ result.fcs[Box(b).fc] = IndependentBlock
    /\ CreatedByPass(Box(b).fc)
    /\ Box(b).fc # OfferedTo(b)
    /\ \A o \in BoxIds \ BoxSubtree(b) : Box(o).fc # Box(b).fc

----------------------------------------------------------------------------
(* C10: the builder keeps its own inline-context contract.                 *)

InlineBoxTypes == {"InlineBox", "RootInlineBox", "TextRun"}

\* C10: when the tree the pass builds has a block-outer root built with no
\* context offered (the html element of a document, or a block-outer root
\* element) and reaches no unsupported element, the pass returns a box, and
\* every inline box, root inline box and text run of the tree holds an
\* inline formatting context.
C10_NoSelfInflictedViolation ==
    (/\ Done
     /\ BuiltRoot # None
     /\ BuiltContext = None
     /\ BlockLevel(BuiltRoot)
     /\ UnsupportedUnder(BuiltRoot) = {}) =>
       /\ result.status = "Some"
       /\ Box(result.ret).node = BuiltRoot
       /\ \A b \in BoxIds : Box(b).type \in InlineBoxTypes =>
             is_inline_formatting_context(result.fcs[Box(b).fc])

C10_Witness ==
    /\ Returned
    /\ dom[1].kind = "Document"
    /\ offered = None
    /\ \E p \in BoxIds :
          /\ Box(p).type = "InlineBox"
          /\ \E b \in ChildBoxes(p) : Box(b).type = "BlockContainer"

=============================================================================
